---- MODULE Spec2Model ----
(***************************************************************************)
(* icons2fontaweswimm.py: a directory of icon outlines is turned into an   *)
(* icon font, a demo page and a stylesheet.                                *)
(*                                                                         *)
(* A Python str is a sequence of tokens.  A token is a one-character       *)
(* string, or an atomic chunk of literal template text (a chunk holds no   *)
(* backslash and no placeholder, so no operation of the script looks       *)
(* inside it).  File names, hex codes and everything a regular-expression  *)
(* replacement template may interpret are kept character by character.     *)
(***************************************************************************)
EXTENDS Integers, Sequences, FiniteSets, TLC

VARIABLES
  pc,            \* position of main (or of the function under study)
  run,           \* number of the current run of the script
  base_conf,     \* the configuration file: parsed JSON, or Missing (also: malformed)
  icon_dir,      \* entries of the icon directory, or Missing
  html_template, \* content of html_template.html, or Missing
  css_template,  \* content of css_template.css, or Missing
  config,        \* the loaded configuration object (mutable dict)
  listing,       \* the list returned by sorted(icon_dir.iterdir())
  idx,           \* position of the for loop of get_glyphs in listing
  utf_counter,   \* local of get_glyphs
  glyphs,        \* the dict built by get_glyphs: sequence of <<key, value>>
  font,          \* the fontforge font object
  files,         \* files written under the output directory
  log,           \* the logging.info lines main has emitted
  written,       \* the paths this run has written, in order
  first,         \* what the first run (or first call) left: compared with the second
  pre            \* the configuration object as it was when set_font_properties was called

vars == <<pc, run, base_conf, icon_dir, html_template, css_template, config,
          listing, idx, utf_counter, glyphs, font, files, log, written, first, pre>>

inputs == <<base_conf, icon_dir, html_template, css_template>>

-----------------------------------------------------------------------------
(* Bounds of the model *)

\* largest number of icons in an enumerated icon directory
MaxIcons == 2
\* largest number of occurrences of one placeholder in a template file
MaxPlaceholders == 2

-----------------------------------------------------------------------------
(* Constants of the script *)

INITIAL_UTF_GARBAGE_VALUE == 59648

DEFAULT_LANGUAGE == "English (US)"
DEFAULT_STYLE == "Regular"
DEFAULT_ENCODING == "UnicodeFull"

FONT_DIR_NAME == "fonts"
DEMO_FILE_NAME == "demo.html"
STYLE_FILE_NAME == "style.css"

REGEX_NUMBER_OF_GLYPHS == "{{ NUMBER_OF_GLYPHS }}"
REGEX_GLYPH_LIST == "{{ GLYPH_LIST }}"
REGEX_STYLE_LIST == "{{ STYLE_LIST }}"

\* last code point of the Unicode Private Use Area, U+F8FF
PrivateUseFirst == 14 * 4096
PrivateUseLast == 15 * 4096 + 8 * 256 + 255

\* a path that does not exist, as a file content or a directory listing
Missing == [exists |-> FALSE, content |-> <<>>]
Present(c) == [exists |-> TRUE, content |-> c]

-----------------------------------------------------------------------------
(* Characters and strings *)

\* the characters of file names and codes, in code point order
CharOrder ==
  << ".", "0", "1", "2", "3", "4", "5", "6", "7", "8", "9", "\\",
     "a", "b", "c", "d", "e", "f", "g", "n", "s", "v", "x" >>

Ord == [c \in {CharOrder[i] : i \in 1..Len(CharOrder)} |->
          CHOOSE i \in 1..Len(CharOrder) : CharOrder[i] = c]

Min(a, b) == IF a < b THEN a ELSE b

\* a < b on Python strings: code point order, a proper prefix first
StrLess(a, b) ==
  \/ \E i \in 1..Min(Len(a), Len(b)) :
        /\ \A j \in 1..(i - 1) : a[j] = b[j]
        /\ Ord[a[i]] < Ord[b[i]]
  \/ /\ Len(a) < Len(b)
     /\ \A j \in 1..Len(a) : a[j] = b[j]

\* Path.__lt__ for two entries of one directory: the names decide
PathLess(a, b) == StrLess(a, b)

\* number of elements of the sorted sequence s that are below x
RECURSIVE CountLess(_, _, _, _)
CountLess(s, x, lo, hi) ==
  IF lo > hi THEN lo - 1
  ELSE LET mid == (lo + hi) \div 2
       IN IF PathLess(s[mid], x) THEN CountLess(s, x, mid + 1, hi)
                                 ELSE CountLess(s, x, lo, mid - 1)

\* place of a[i] in the stable merge of the sorted sequences a and b
MergePos(a, b, i) == i + CountLess(b, a[i], 1, Len(b))

\* the largest i in lo-1..hi with MergePos(a, b, i) <= k
RECURSIVE TakenFrom(_, _, _, _, _)
TakenFrom(a, b, k, lo, hi) ==
  IF lo > hi THEN lo - 1
  ELSE LET mid == (lo + hi) \div 2
       IN IF MergePos(a, b, mid) <= k THEN TakenFrom(a, b, k, mid + 1, hi)
                                      ELSE TakenFrom(a, b, k, lo, mid - 1)

Merge(a, b) ==
  [k \in 1..(Len(a) + Len(b)) |->
     LET i == TakenFrom(a, b, k, 1, Len(a))
     IN IF i > 0 /\ MergePos(a, b, i) = k THEN a[i] ELSE b[k - i]]

RECURSIVE MergeSort(_, _, _)
MergeSort(s, lo, hi) ==
  IF lo > hi THEN <<>>
  ELSE IF lo = hi THEN <<s[lo]>>
  ELSE LET mid == (lo + hi) \div 2
       IN Merge(MergeSort(s, lo, mid), MergeSort(s, mid + 1, hi))

\* the listing taken as the file system gives it
Unsorted(s) == s

\* sorted(iterable) of paths: a new list, ascending
sorted(s) == MergeSort(s, 1, Len(s))

HexDigit(d) == IF d < 10 THEN CharOrder[d + 2] ELSE CharOrder[d + 3]

RECURSIVE HexDigits(_)
HexDigits(n) ==
  IF n < 16 THEN <<HexDigit(n)>>
  ELSE Append(HexDigits(n \div 16), HexDigit(n % 16))

\* hex(n) for n >= 0: lower-case digits after the prefix 0x
hex(n) == <<"0", "x">> \o HexDigits(n)

HexValue(c) == CHOOSE d \in 0..15 : HexDigit(d) = c

RECURSIVE HexNumber(_)
HexNumber(s) ==
  IF s = <<>> THEN 0
  ELSE 16 * HexNumber(SubSeq(s, 1, Len(s) - 1)) + HexValue(s[Len(s)])

\* int(s, base=0) on a literal with the prefix 0x
int(s) == HexNumber(SubSeq(s, 3, Len(s)))

\* utf_code[len('0x'):]
StripPrefix(utf_code) == SubSeq(utf_code, 3, Len(utf_code))

\* name.rfind('.'): the last index of a dot, 0 when there is none
LastDot(name) ==
  IF \E i \in 1..Len(name) : name[i] = "."
  THEN CHOOSE i \in 1..Len(name) :
         name[i] = "." /\ \A j \in (i + 1)..Len(name) : name[j] # "."
  ELSE 0

\* Path(icon_path).stem: the name without its last suffix; a leading or
\* a trailing dot starts no suffix
stem(name) ==
  LET i == LastDot(name)
  IN IF 1 < i /\ i < Len(name) THEN SubSeq(name, 1, i - 1) ELSE name

-----------------------------------------------------------------------------
(* dict *)

HasKey(d, k) == \E i \in 1..Len(d) : d[i][1] = k

\* d[k] = v: a new key goes last, an old key keeps its place
DictSet(d, k, v) ==
  IF HasKey(d, k)
  THEN [i \in 1..Len(d) |-> IF d[i][1] = k THEN <<k, v>> ELSE d[i]]
  ELSE Append(d, <<k, v>>)

DictGet(d, k) == d[CHOOSE i \in 1..Len(d) : d[i][1] = k][2]

-----------------------------------------------------------------------------
(* The icon directory *)

Reverse(s) == [i \in 1..Len(s) |-> s[Len(s) + 1 - i]]

\* the file names the enumerated directories draw from
IconNames ==
  << <<"a", ".", "s", "v", "g">>,
     <<"b", ".", "s", "v", "g">>,
     <<"b">>,
     <<"a", ".", "b", ".", "s", "v", "g">>,
     <<"a", "\\", "n", ".", "s", "v", "g">>,
     <<"a", "\\", "d", ".", "s", "v", "g">> >>

\* the directories of at most MaxIcons entries, each in one order of its entries
SmallDirs ==
  {d \in UNION {[1..n -> 1..Len(IconNames)] : n \in 0..MaxIcons} :
     \A i \in 1..Len(d) : \A j \in 1..Len(d) : i < j => d[i] < d[j]}

DirOf(d) == [i \in 1..Len(d) |-> IconNames[d[i]]]

\* a directory with one entry more than the Private Use Area has code points
\* from INITIAL_UTF_GARBAGE_VALUE on; its entries are named 0001, 0002, ...
BigN == PrivateUseLast - INITIAL_UTF_GARBAGE_VALUE + 2

BigName(i) ==
  << HexDigit(i \div 1000), HexDigit((i \div 100) % 10),
     HexDigit((i \div 10) % 10), HexDigit(i % 10) >>

BigDir == [i \in 1..BigN |-> BigName(i)]

\* the orders of 1..n
Orders(n) == {p \in [1..n -> 1..n] : \A i \in 1..n : \E j \in 1..n : p[j] = i}

\* the numbers of entries of the long directories: some short ones, and the
\* two around the end of the Private Use Area
BigSizes == (1..100) \cup {BigN}

\* icon_dir.iterdir(): the entries in an order the file system chooses. Every
\* order of a short directory is drawn, two orders of a long one.
iterdir(d) ==
  IF Len(d) <= MaxIcons
  THEN {[i \in 1..Len(d) |-> d[p[i]]] : p \in Orders(Len(d))}
  ELSE {d, Reverse(d)}

-----------------------------------------------------------------------------
(* get_glyphs *)

\* get_glyphs with the counter advanced before it is used
AssignCodeAfterIncrement(g, counter, icon) == DictSet(g, hex(counter + 1), icon)

\* the body of the for loop of get_glyphs, for the entry icon
AssignCode(g, counter, icon) == DictSet(g, hex(counter), icon)

\* main logs its line and calls get_glyphs: glyphs = {}, utf_counter =
\* INITIAL_UTF_GARBAGE_VALUE, sorted(icon_dir.iterdir())
ScanIcons ==
  /\ pc = "get_glyphs"
  /\ icon_dir.exists
  /\ \E order \in iterdir(icon_dir.content) : listing' = sorted(order)
  /\ glyphs' = <<>>
  /\ utf_counter' = INITIAL_UTF_GARBAGE_VALUE
  /\ idx' = 1
  /\ log' = Append(log, "Loading glyphs from")
  /\ pc' = "get_glyphs_loop"
  /\ UNCHANGED <<inputs, run, config, font, files, written, first, pre>>

\* one iteration of the for loop
AssignGlyph ==
  /\ pc = "get_glyphs_loop"
  /\ idx <= Len(listing)
  /\ glyphs' = AssignCode(glyphs, utf_counter, listing[idx])
  /\ utf_counter' = utf_counter + 1
  /\ idx' = idx + 1
  /\ UNCHANGED <<inputs, pc, run, config, listing, font, files, log, written,
                 first, pre>>

\* return glyphs
ReturnGlyphs ==
  /\ pc = "get_glyphs_loop"
  /\ idx > Len(listing)
  /\ pc' = "initialize_font"
  /\ UNCHANGED <<inputs, run, config, listing, idx, utf_counter, glyphs, font,
                 files, log, written, first, pre>>

\* get_glyphs as a whole.  The i-th iteration of the loop runs with
\* utf_counter = INITIAL_UTF_GARBAGE_VALUE + i - 1, the counter going up by
\* one in each iteration, and hex gives a new key for each counter: the
\* dict is the sequence of the pairs the iterations assign.
get_glyphs(entries) ==
  LET icons == sorted(entries)
  IN  [i \in 1..Len(icons) |->
         AssignCode(<<>>, INITIAL_UTF_GARBAGE_VALUE + i - 1, icons[i])[1]]

\* a call of get_glyphs, taken in one step
GetGlyphs ==
  /\ pc = "get_glyphs"
  /\ icon_dir.exists
  /\ \E order \in iterdir(icon_dir.content) : glyphs' = get_glyphs(order)
  /\ pc' = "initialize_font"
  /\ UNCHANGED <<inputs, run, config, listing, idx, utf_counter, font, files,
                 log, written, first, pre>>

-----------------------------------------------------------------------------
(* Python values of the configuration: str, list, tuple, None.  The content *)
(* of a str is its tokens, the content of a list or tuple its items.        *)

Str(tokens) == [t |-> "str", v |-> tokens]
List(items) == [t |-> "list", v |-> items]
None == [t |-> "None", v |-> <<>>]

DEFAULT_FAMILY == None

\* tuple(value)
tuple(value) == [t |-> "tuple", v |-> value.v]

\* a + b on str
Concat(a, b) == Str(a.v \o b.v)

\* d.pop(k, default): the value returned
PopValue(d, k, default) == IF HasKey(d, k) THEN DictGet(d, k) ELSE default

RECURSIVE Without(_, _)
Without(d, k) ==
  IF d = <<>> THEN <<>>
  ELSE IF d[1][1] = k THEN Without(Tail(d), k)
  ELSE <<d[1]>> \o Without(Tail(d), k)

\* d.pop(k, default): the dict it leaves
PopRest(d, k) == Without(d, k)

-----------------------------------------------------------------------------
(* The fontforge font object: its attributes, its SFNT name table, its     *)
(* character slots, and the setattr and appendSFNTName calls made on it.   *)

NoFont == [attrs |-> <<>>, sfnt |-> <<>>, chars |-> <<>>, calls |-> <<>>]

\* the attribute names a fontforge font has, as far as the configurations use them
FontAttributes ==
  {"encoding", "familyname", "fontname", "fullname", "copyright", "os2_panose"}

\* hasattr(font, key)
hasattr(f, key) == key \in FontAttributes

\* setattr(font, key, value), font.key = value
setattr(f, key, value) ==
  [f EXCEPT !.attrs = DictSet(f.attrs, key, value),
            !.calls = Append(f.calls, <<"setattr", key>>)]

\* font.appendSFNTName(lang, key, value)
appendSFNTName(f, lang, key, value) ==
  [f EXCEPT !.sfnt = Append(f.sfnt, <<lang, key, value>>),
            !.calls = Append(f.calls, <<"appendSFNTName", key>>)]

\* the name table entry always under the default language
ApplyPropDefaultLanguage(f, lang, key, value) ==
  IF hasattr(f, key)
  THEN setattr(f, key, IF value.t = "list" THEN tuple(value) ELSE value)
  ELSE appendSFNTName(f, Str(<<DEFAULT_LANGUAGE>>), key, value)

\* the body of the loop over config['props'].items()
ApplyProp(f, lang, key, value) ==
  IF hasattr(f, key)
  THEN setattr(f, key, IF value.t = "list" THEN tuple(value) ELSE value)
  ELSE appendSFNTName(f, lang, key, value)

RECURSIVE ApplyProps(_, _, _)
ApplyProps(f, lang, items) ==
  IF items = <<>> THEN f
  ELSE ApplyProps(ApplyProp(f, lang, items[1][1], items[1][2]), lang, Tail(items))

\* the loop over config.get('sfnt_names', [])
RECURSIVE AppendNames(_, _)
AppendNames(f, names) ==
  IF names = <<>> THEN f
  ELSE AppendNames(appendSFNTName(f, names[1][1], names[1][2], names[1][3]),
                   Tail(names))

\* the two separators exchanged
DeriveNamesSwapped(f, family, style) ==
  LET f1 == setattr(f, "familyname", family)
      f2 == setattr(f1, "fontname", Concat(Concat(family, Str(<<" ">>)), style))
  IN setattr(f2, "fullname", Concat(Concat(family, Str(<<"-">>)), style))

\* family is not None: familyname, fontname and fullname are derived
DeriveNames(f, family, style) ==
  LET f1 == setattr(f, "familyname", family)
      f2 == setattr(f1, "fontname", Concat(Concat(family, Str(<<"-">>)), style))
  IN setattr(f2, "fullname", Concat(Concat(family, Str(<<" ">>)), style))

\* props after the four pops: props is config['props'] itself, not a copy
PoppedProps(props) ==
  PopRest(PopRest(PopRest(PopRest(props, "lang"), "family"), "style"), "encoding")

\* set_font_properties(font, config): the font and the configuration it leaves
set_font_properties(f, cfg) ==
  LET props == cfg.props
      lang == PopValue(props, "lang", Str(<<DEFAULT_LANGUAGE>>))
      family == PopValue(props, "family", DEFAULT_FAMILY)
      style == PopValue(props, "style", Str(<<DEFAULT_STYLE>>))
      encoding == PopValue(props, "encoding", Str(<<DEFAULT_ENCODING>>))
      left == PoppedProps(props)
      f1 == setattr(f, "encoding", encoding)
      f2 == IF family # None THEN DeriveNames(f1, family, style) ELSE f1
      f3 == ApplyProps(f2, lang, left)
  IN [font |-> AppendNames(f3, cfg.sfnt_names),
      config |-> [cfg EXCEPT !.props = left]]

\* the body of the loop of add_font_glyphs: createMappedChar, importOutlines,
\* removeOverlap, glyphname
AddGlyph(f, utf_code, icon_path) ==
  [f EXCEPT !.chars = DictSet(f.chars, int(utf_code),
                              [outlines |-> icon_path,
                               options |-> <<"removeoverlap", "correctdir">>,
                               glyphname |-> stem(icon_path)])]

RECURSIVE add_font_glyphs(_, _)
add_font_glyphs(f, g) ==
  IF g = <<>> THEN f
  ELSE add_font_glyphs(AddGlyph(f, g[1][1], g[1][2]), Tail(g))

-----------------------------------------------------------------------------
(* Configurations *)

\* the entries a props object may hold, in the order of the file
PropChoices ==
  << {<<>>, <<"lang", Str(<<"French">>)>>},
     {<<>>, <<"family", Str(<<"Swimm">>)>>, <<"family", None>>},
     {<<>>, <<"style", Str(<<"Bold">>)>>},
     {<<>>, <<"encoding", Str(<<"UnicodeBmp">>)>>},
     {<<>>, <<"fontname", Str(<<"Custom">>)>>},
     {<<>>, <<"fullname", Str(<<"Custom Name">>)>>},
     {<<>>, <<"os2_panose", List(<<"2", "0", "5">>)>>},
     {<<>>, <<"Designer", Str(<<"Swimm Ltd">>)>>} >>

\* every choice of the first n entries
RECURSIVE PropsUpTo(_)
PropsUpTo(n) ==
  IF n = 0 THEN {<<>>}
  ELSE {p \o (IF e = <<>> THEN <<>> ELSE <<e>>) :
          p \in PropsUpTo(n - 1), e \in PropChoices[n]}

AllProps == PropsUpTo(Len(PropChoices))

SfntChoices ==
  { <<>>,
    << <<Str(<<"English (US)">>), "Copyright", Str(<<"Swimm">>)>>,
       <<Str(<<"French">>), "Designer", Str(<<"Swimm SA">>)>> >> }

NoConfig == [props |-> <<>>, sfnt_names |-> <<>>, output_fonts |-> <<>>]

\* the configurations set_font_properties is studied on
PropConfigs ==
  {[props |-> p, sfnt_names |-> n, output_fonts |-> <<>>] :
     p \in AllProps, n \in SfntChoices}

-----------------------------------------------------------------------------
(* Text: str.format, str.join, re.sub *)

\* the parts lo..hi of a list of texts, one after the other
RECURSIVE FlattenRange(_, _, _)
FlattenRange(parts, lo, hi) ==
  IF lo > hi THEN <<>>
  ELSE IF lo = hi THEN parts[lo]
  ELSE LET mid == (lo + hi) \div 2
       IN FlattenRange(parts, lo, mid) \o FlattenRange(parts, mid + 1, hi)

Flatten(parts) == FlattenRange(parts, 1, Len(parts))

\* sep.join(parts)
Join(parts, sep) ==
  Flatten([i \in 1..Len(parts) |-> IF i = 1 THEN parts[i] ELSE <<sep>> \o parts[i]])

RECURSIVE Decimal(_)
Decimal(n) ==
  IF n < 10 THEN <<HexDigit(n)>>
  ELSE Append(Decimal(n \div 10), HexDigit(n % 10))

\* str(n) for n >= 0
str(n) == Decimal(n)

\* template.format(glyph_name=..., utf_code=...): a field is replaced by its
\* argument, a doubled brace by a single one
FormatToken(tok, glyph_name, utf_code) ==
  IF tok = "{glyph_name}" THEN glyph_name
  ELSE IF tok = "{utf_code}" THEN utf_code
  ELSE IF tok = "{{" THEN <<"{">>
  ELSE IF tok = "}}" THEN <<"}">>
  ELSE <<tok>>

format(template, glyph_name, utf_code) ==
  Flatten([i \in 1..Len(template) |-> FormatToken(template[i], glyph_name, utf_code)])

Letters == {CharOrder[i] : i \in 13..Len(CharOrder)}
Digits == {CharOrder[i] : i \in 2..11}

\* the escapes a replacement template turns into one character
Escaped(c) ==
  CASE c = "\\" -> "\\"
    [] c = "n" -> "\n"
    [] c = "a" -> "<BEL>"
    [] c = "b" -> "<BS>"
    [] c = "f" -> "\f"
    [] c = "v" -> "<VT>"
    [] c = "0" -> "<NUL>"

IsEscape(c) == c \in {"\\", "n", "a", "b", "f", "v", "0"}

\* the number of backslashes that stand right before position i
BackslashesBefore(repl, i) ==
  LET others == {j \in 1..(i - 1) : repl[j] # "\\"}
  IN IF others = {} THEN i - 1
     ELSE i - 1 - (CHOOSE j \in others : \A k \in others : k <= j)

\* re reads a replacement template from left to right, a backslash together
\* with the character after it: the backslash at i starts such a pair when
\* an even number of backslashes stand right before it
StartsEscape(repl, i) ==
  repl[i] = "\\" /\ BackslashesBefore(repl, i) % 2 = 0

\* the pair at i is an error: nothing after the backslash, or a letter that
\* is no escape, or a group reference (the pattern has no group)
BadEscape(repl, i) ==
  /\ StartsEscape(repl, i)
  /\ \/ i = Len(repl)
     \/ /\ ~IsEscape(repl[i + 1])
        /\ repl[i + 1] \in Letters \cup Digits

\* what position i of the template gives: an escape gives its character, a
\* backslash before anything else stays, with the character after it
ExpandAt(repl, i) ==
  IF StartsEscape(repl, i)
  THEN IF i < Len(repl) /\ IsEscape(repl[i + 1]) THEN <<Escaped(repl[i + 1])>>
       ELSE <<"\\">>
  ELSE IF i > 1 /\ StartsEscape(repl, i - 1) /\ IsEscape(repl[i]) THEN <<>>
  ELSE <<repl[i]>>

\* re's parse of a replacement template, for a pattern without groups
Expand(repl) ==
  IF \E i \in 1..Len(repl) : BadEscape(repl, i)
  THEN [ok |-> FALSE, text |-> <<>>]
  ELSE [ok |-> TRUE, text |-> Flatten([i \in 1..Len(repl) |-> ExpandAt(repl, i)])]

\* re.sub with count=1: the first occurrence alone replaced
ReplaceFirst(text, placeholder, by) ==
  Flatten([i \in 1..Len(text) |->
             IF text[i] = placeholder /\ \A j \in 1..(i - 1) : text[j] # placeholder
             THEN by ELSE <<text[i]>>])

\* every occurrence of the placeholder replaced
Replace(text, placeholder, by) ==
  Flatten([i \in 1..Len(text) |-> IF text[i] = placeholder THEN by ELSE <<text[i]>>])

\* re.sub(pattern, repl, string) for a pattern that matches one placeholder
\* literally: the replacement template is parsed first, match or no match
re_sub(pattern, repl, string) ==
  LET e == Expand(repl)
  IN IF e.ok THEN [ok |-> TRUE, text |-> Replace(string, pattern, e.text)]
     ELSE [ok |-> FALSE, text |-> <<>>]

-----------------------------------------------------------------------------
(* The fragments *)

TEMPLATED_HTML ==
  << "\n      <div class=\"glyph fs1\">\n        <div class=\"clearfix bshadow0 pbs\">\n          <span class=\"",
     "icon-", "{glyph_name}", "\"",
     "></span>\n          <span class=\"mls\"> ",
     "icon-", "{glyph_name}", "<",
     "/span>\n        </div>\n        <fieldset class=\"fs0 size1of1 clearfix hidden-false\">\n          <input type=\"text\" readonly ",
     "value=\"", "{utf_code}", "\"",
     " class=\"unit size1of2\" />\n          <input\n            type=\"text\"\n            maxlength=\"1\"\n            readonly\n            ",
     "value=\"", "&#x", "{utf_code}", ";", "\"",
     "\n            class=\"unitRight size1of2 talign-right\"\n          />\n        </fieldset>\n        <div class=\"fs0 bshadow0 clearfix hidden-true\">\n          <span class=\"unit pvs fgc1\">liga: </span>\n          <input type=\"text\" readonly value=\"\" class=\"liga unitRight\" />\n        </div>\n      </div>\n" >>

TEMPLATED_CSS ==
  << "\n", ".", "icon-", "{glyph_name}", ":", "before", " ", "{{",
     "\n  content: ", "\"", "\\", "\\", "{utf_code}", "\"", ";\n", "}}", "\n" >>

\* the list a generate function builds from glyphs.items()
Fragments(template, g) ==
  [i \in 1..Len(g) |-> format(template, stem(g[i][2]), StripPrefix(g[i][1]))]

\* generate_demo_html: the text of demo.html, or the failure of re.sub
generate_demo_html(template, g) ==
  LET counted == re_sub(REGEX_NUMBER_OF_GLYPHS, str(Len(g)), template)
  IN IF counted.ok
     THEN re_sub(REGEX_GLYPH_LIST, Join(Fragments(TEMPLATED_HTML, g), "\n"), counted.text)
     ELSE counted

\* generate_style_css: the text of style.css, or the failure of re.sub
generate_style_css(template, g) ==
  re_sub(REGEX_STYLE_LIST, Join(Fragments(TEMPLATED_CSS, g), "\n"), template)

-----------------------------------------------------------------------------
(* Template files *)

RECURSIVE Repeat(_, _)
Repeat(s, n) == IF n = 0 THEN <<>> ELSE s \o Repeat(s, n - 1)

HtmlTemplates ==
  {<<"<html><body><h1>Glyphs: ">> \o c \o <<"</h1>\n">>
     \o Repeat(<<REGEX_GLYPH_LIST, "<hr/>\n">>, k) \o <<"</body></html>\n">> :
     c \in {<<>>, <<REGEX_NUMBER_OF_GLYPHS>>}, k \in 0..MaxPlaceholders}

CssTemplates ==
  {<<"@font-face { font-family: 'fontaweswimm'; }\n">>
     \o Repeat(<<REGEX_STYLE_LIST, "\n">>, k) : k \in 0..MaxPlaceholders}

\* number of occurrences of a token in a text
Count(text, tok) == Cardinality({i \in 1..Len(text) : text[i] = tok})

-----------------------------------------------------------------------------
(* set_font_properties on its own: one loaded configuration is applied to a *)
(* fresh font, and then to a second fresh font.                             *)

NoResult == [glyphs |-> <<>>, files |-> <<>>, font |-> NoFont]

ApplyConfig ==
  /\ pc = "set_font_properties"
  /\ run <= 2
  /\ LET r == set_font_properties(NoFont, config)
     IN /\ font' = r.font
        /\ config' = r.config
        /\ first' = IF run = 1 THEN [first EXCEPT !.font = r.font] ELSE first
  /\ pre' = config
  /\ run' = run + 1
  /\ UNCHANGED <<inputs, pc, listing, idx, utf_counter, glyphs, files, log, written>>

InitProps ==
  /\ pc = "set_font_properties"
  /\ run = 1
  /\ base_conf = Missing
  /\ icon_dir = Missing
  /\ html_template = Missing
  /\ css_template = Missing
  /\ config \in PropConfigs
  /\ listing = <<>>
  /\ idx = 1
  /\ utf_counter = INITIAL_UTF_GARBAGE_VALUE
  /\ glyphs = <<>>
  /\ font = NoFont
  /\ files = <<>>
  /\ log = <<>>
  /\ written = <<>>
  /\ first = NoResult
  /\ pre = NoConfig

SpecProps == InitProps /\ [][ApplyConfig]_vars

InitBig ==
  /\ pc = "get_glyphs"
  /\ run = 1
  /\ base_conf = Missing
  /\ icon_dir \in {Present(SubSeq(BigDir, 1, n)) : n \in BigSizes}
  /\ html_template = Missing
  /\ css_template = Missing
  /\ config = NoConfig
  /\ listing = <<>>
  /\ idx = 1
  /\ utf_counter = INITIAL_UTF_GARBAGE_VALUE
  /\ glyphs = <<>>
  /\ font = NoFont
  /\ files = <<>>
  /\ log = <<>>
  /\ written = <<>>
  /\ first = NoResult
  /\ pre = NoConfig

SpecBig == InitBig /\ [][GetGlyphs]_vars

-----------------------------------------------------------------------------
(* main *)

\* main with each phase in a try block that goes on to the next phase
Swallowed(phase) ==
  CASE phase = "load_config" -> "get_glyphs"
    [] phase = "get_glyphs" -> "initialize_font"
    [] phase = "initialize_font" -> "generate_fonts"
    [] phase = "generate_fonts" -> "generate_demo_html"
    [] phase = "generate_demo_html" -> "generate_style_css"
    [] phase = "generate_style_css" -> "done"

\* main catches no exception: whatever a phase raises ends the run
Uncaught(phase) == "failed"

\* the configurations of the runs of main
MainConfigs ==
  { [props |-> << <<"family", Str(<<"Swimm">>)>>, <<"Designer", Str(<<"Swimm Ltd">>)>> >>,
     sfnt_names |-> <<>>,
     output_fonts |-> <<"fontaweswimm.ttf", "fontaweswimm.woff">>],
    [props |-> <<>>, sfnt_names |-> <<>>, output_fonts |-> <<>>] }

\* font_dir / outfile
FontPath(outfile) == <<FONT_DIR_NAME, "/", outfile>>

\* what font.generate writes: the font tool decides the bytes
FontBinary(f, outfile) == <<"<font binary>">>

\* the files after the first n output fonts are generated
RECURSIVE Generated(_, _, _, _)
Generated(fs, f, outs, n) ==
  IF n = 0 THEN fs
  ELSE DictSet(Generated(fs, f, outs, n - 1), FontPath(outs[n]), FontBinary(f, outs[n]))

LoadConfig ==
  /\ pc = "load_config"
  /\ log' = Append(log, "Loading basic config from")
  /\ IF base_conf.exists
     THEN /\ config' = base_conf.content
          /\ pc' = "get_glyphs"
     ELSE /\ config' = config
          /\ pc' = Uncaught("load_config")
  /\ UNCHANGED <<inputs, run, listing, idx, utf_counter, glyphs, font, files,
                 written, first, pre>>

\* icon_dir.iterdir() raises: there is no such directory
ScanFails ==
  /\ pc = "get_glyphs"
  /\ ~icon_dir.exists
  /\ log' = Append(log, "Loading glyphs from")
  /\ pc' = Uncaught("get_glyphs")
  /\ UNCHANGED <<inputs, run, config, listing, idx, utf_counter, glyphs, font,
                 files, written, first, pre>>

\* initialize_font: a new font, set_font_properties, add_font_glyphs; the
\* font tool may reject a property or an outline
InitializeFont ==
  /\ pc = "initialize_font"
  /\ log' = Append(log, "Initializing font object...")
  /\ pre' = config
  /\ \E accepted \in BOOLEAN :
       LET r == set_font_properties(NoFont, config)
       IN IF accepted
          THEN /\ font' = add_font_glyphs(r.font, glyphs)
               /\ config' = r.config
               /\ pc' = "generate_fonts"
          ELSE /\ font' = r.font
               /\ config' = r.config
               /\ pc' = Uncaught("initialize_font")
  /\ UNCHANGED <<inputs, run, listing, idx, utf_counter, glyphs, files, written, first>>

\* font_dir.mkdir and the loop over config['output_fonts']: the first n
\* fonts are generated, and the loop ends there when the font tool fails
GenerateFonts ==
  /\ pc = "generate_fonts"
  /\ log' = Append(log, "Generating output fonts...")
  /\ \E n \in 0..Len(config.output_fonts) : \E rendered \in BOOLEAN :
       /\ rendered => n = Len(config.output_fonts)
       /\ files' = Generated(files, font, config.output_fonts, n)
       /\ written' = written \o [i \in 1..n |-> FontPath(config.output_fonts[i])]
       /\ pc' = IF rendered THEN "generate_demo_html" ELSE Uncaught("generate_fonts")
  /\ UNCHANGED <<inputs, run, config, listing, idx, utf_counter, glyphs, font,
                 first, pre>>

\* generate_demo_html: read_text, the two re.sub, write_text
GenerateDemo ==
  /\ pc = "generate_demo_html"
  /\ log' = Append(log, "Generating html demo...")
  /\ \E stored \in BOOLEAN :
       LET page == generate_demo_html(html_template.content, glyphs)
       IN IF html_template.exists /\ page.ok /\ stored
          THEN /\ files' = DictSet(files, <<DEMO_FILE_NAME>>, page.text)
               /\ written' = Append(written, <<DEMO_FILE_NAME>>)
               /\ pc' = "generate_style_css"
          ELSE /\ UNCHANGED <<files, written>>
               /\ pc' = Uncaught("generate_demo_html")
  /\ UNCHANGED <<inputs, run, config, listing, idx, utf_counter, glyphs, font,
                 first, pre>>

\* generate_style_css: read_text, re.sub, write_text; then 'Done!'
GenerateStyle ==
  /\ pc = "generate_style_css"
  /\ \E stored \in BOOLEAN :
       LET sheet == generate_style_css(css_template.content, glyphs)
       IN IF css_template.exists /\ sheet.ok /\ stored
          THEN /\ files' = DictSet(files, <<STYLE_FILE_NAME>>, sheet.text)
               /\ written' = Append(written, <<STYLE_FILE_NAME>>)
               /\ log' = log \o <<"Generating css styles...", "Done!">>
               /\ pc' = "done"
          ELSE /\ UNCHANGED <<files, written>>
               /\ log' = Append(log, "Generating css styles...")
               /\ pc' = Uncaught("generate_style_css")
  /\ UNCHANGED <<inputs, run, config, listing, idx, utf_counter, glyphs, font,
                 first, pre>>

\* the script is run again on the same inputs: a new process, the output
\* directory as the first run left it
RunAgain ==
  /\ pc = "done"
  /\ run = 1
  /\ run' = 2
  /\ first' = [glyphs |-> glyphs, files |-> files, font |-> font]
  /\ pc' = "load_config"
  /\ config' = NoConfig
  /\ listing' = <<>>
  /\ idx' = 1
  /\ utf_counter' = INITIAL_UTF_GARBAGE_VALUE
  /\ glyphs' = <<>>
  /\ font' = NoFont
  /\ log' = <<>>
  /\ written' = <<>>
  /\ pre' = NoConfig
  /\ UNCHANGED <<inputs, files>>

Init ==
  /\ pc = "load_config"
  /\ run = 1
  /\ base_conf \in {Missing} \cup {Present(c) : c \in MainConfigs}
  /\ icon_dir \in {Missing} \cup {Present(DirOf(d)) : d \in SmallDirs}
  /\ html_template \in {Missing} \cup {Present(t) : t \in HtmlTemplates}
  /\ css_template \in {Missing} \cup {Present(t) : t \in CssTemplates}
  /\ config = NoConfig
  /\ listing = <<>>
  /\ idx = 1
  /\ utf_counter = INITIAL_UTF_GARBAGE_VALUE
  /\ glyphs = <<>>
  /\ font = NoFont
  /\ files = <<>>
  /\ log = <<>>
  /\ written = <<>>
  /\ first = NoResult
  /\ pre = NoConfig

Next ==
  \/ LoadConfig
  \/ ScanIcons
  \/ ScanFails
  \/ AssignGlyph
  \/ ReturnGlyphs
  \/ InitializeFont
  \/ GenerateFonts
  \/ GenerateDemo
  \/ GenerateStyle
  \/ RunAgain

Spec == Init /\ [][Next]_vars

-----------------------------------------------------------------------------
(* Vocabulary of the properties *)

IsPrefix(s, t) == Len(s) <= Len(t) /\ \A i \in 1..Len(s) : s[i] = t[i]

InSeq(s, x) == \E i \in 1..Len(s) : s[i] = x

\* sub occurs in text as a run of consecutive tokens
Contains(text, sub) ==
  \E p \in 0..(Len(text) - Len(sub)) : SubSeq(text, p + 1, p + Len(sub)) = sub

\* the place of the i-th occurrence of tok in text
NthStart(text, tok, i) ==
  CHOOSE p \in 1..Len(text) : text[p] = tok /\ Count(SubSeq(text, 1, p), tok) = i

\* the text from the i-th occurrence of tok up to the next one (up to the end
\* of the text, for the last of n)
Piece(text, tok, i, n) ==
  SubSeq(text, NthStart(text, tok, i),
         IF i < n THEN NthStart(text, tok, i + 1) - 1 ELSE Len(text))

\* get_glyphs has returned to main
GlyphsReturned == pc = "initialize_font"

DemoWritten == InSeq(written, <<DEMO_FILE_NAME>>)
StyleWritten == InSeq(written, <<STYLE_FILE_NAME>>)
DemoPage == DictGet(files, <<DEMO_FILE_NAME>>)
StyleSheet == DictGet(files, <<STYLE_FILE_NAME>>)

\* the first token of a glyph fragment of the demo page
FragmentStart == TEMPLATED_HTML[1]

\* set_font_properties has been called: pre is the configuration it was given
Applied == pc = "set_font_properties" /\ run > 1

FourKeys == {"lang", "family", "style", "encoding"}

\* the declared properties other than the four: the entries, in order
RECURSIVE Declared(_)
Declared(props) ==
  IF props = <<>> THEN <<>>
  ELSE (IF props[1][1] \in FourKeys THEN <<>> ELSE <<props[1]>>) \o Declared(Tail(props))

HasFamily(cfg) == HasKey(cfg.props, "family") /\ DictGet(cfg.props, "family").t = "str"

StyleOrRegular(cfg) ==
  IF HasKey(cfg.props, "style") THEN DictGet(cfg.props, "style").v ELSE <<"Regular">>

LangOrEnglish(cfg) ==
  IF HasKey(cfg.props, "lang") THEN DictGet(cfg.props, "lang") ELSE Str(<<"English (US)">>)

PhaseLines ==
  << "Loading basic config from", "Loading glyphs from", "Initializing font object...",
     "Generating output fonts...", "Generating html demo...", "Generating css styles...",
     "Done!" >>

\* the paths a complete run writes, in order
ExpectedWrites(cfg) ==
  [i \in 1..Len(cfg.output_fonts) |-> <<"fonts", "/", cfg.output_fonts[i]>>]
    \o << <<"demo.html">>, <<"style.css">> >>

-----------------------------------------------------------------------------
(* C1: get_glyphs maps a directory of N entries to exactly the N code points *)
(* 0xE900 .. 0xE900+N-1, the i-th code point to the i-th entry in ascending  *)
(* order of name: every entry has one code point, no two the same one.       *)
C1_GlyphEnumeration ==
  GlyphsReturned =>
    LET D == icon_dir.content
    IN /\ Len(glyphs) = Len(D)
       /\ \A i \in 1..Len(glyphs) :
            /\ SubSeq(glyphs[i][1], 1, 2) = <<"0", "x">>
            /\ int(glyphs[i][1]) = 59648 + i - 1
            /\ InSeq(D, glyphs[i][2])
            /\ Cardinality({j \in 1..Len(D) : PathLess(D[j], glyphs[i][2])}) = i - 1
       /\ \A j \in 1..Len(D) : \E i \in 1..Len(glyphs) : glyphs[i][2] = D[j]
       /\ \A i \in 1..Len(glyphs) : \A k \in 1..Len(glyphs) :
            glyphs[i][1] = glyphs[k][1] => i = k

\* two entries listed in another order than their names': a.b.svg gets
\* 0xe900 and a.svg 0xe901
C1_Witness ==
  /\ GlyphsReturned
  /\ icon_dir.content = << <<"a", ".", "s", "v", "g">>, <<"a", ".", "b", ".", "s", "v", "g">> >>
  /\ glyphs = << << <<"0", "x", "e", "9", "0", "0">>, <<"a", ".", "b", ".", "s", "v", "g">> >>,
                 << <<"0", "x", "e", "9", "0", "1">>, <<"a", ".", "s", "v", "g">> >> >>

(* C2: with one glyph-list placeholder in the template, the demo page holds *)
(* one fragment per glyph, in the order of the mapping, the fragment of a    *)
(* glyph holding the icon's stem and the code point's hex digits as a        *)
(* literal value and as &#x<hex>; and the count placeholder is replaced by   *)
(* the decimal number of glyphs.                                             *)
C2_DemoFragments ==
  (DemoWritten /\ Count(html_template.content, REGEX_GLYPH_LIST) = 1) =>
    LET n == Len(glyphs)
    IN /\ Count(DemoPage, FragmentStart) = n
       /\ \A i \in 1..n :
            LET frag == Piece(DemoPage, FragmentStart, i, n)
                digits == HexDigits(59648 + i - 1)
            IN /\ Contains(frag, <<"icon-">> \o stem(glyphs[i][2]) \o <<"\"">>)
               /\ Contains(frag, <<"value=\"">> \o digits \o <<"\"">>)
               /\ Contains(frag, <<"value=\"", "&#x">> \o digits \o <<";", "\"">>)
       /\ Count(DemoPage, REGEX_NUMBER_OF_GLYPHS) = 0
       /\ Count(html_template.content, REGEX_NUMBER_OF_GLYPHS) = 1
            => SubSeq(DemoPage, 2, 1 + Len(Decimal(n))) = Decimal(n)

(* C3: the stylesheet holds one rule per glyph, the rule of a glyph named   *)
(* icon-<stem> with the selector :before, its content a backslash and the   *)
(* hex digits of the code point.                                            *)
C3_StyleRules ==
  (StyleWritten /\ Count(css_template.content, REGEX_STYLE_LIST) = 1) =>
    LET n == Len(glyphs)
    IN /\ Count(StyleSheet, "icon-") = n
       /\ \A i \in 1..n :
            LET rule == Piece(StyleSheet, "icon-", i, n)
                digits == HexDigits(59648 + i - 1)
            IN /\ IsPrefix(<<"icon-">> \o stem(glyphs[i][2]) \o <<":", "before">>, rule)
               /\ Contains(rule, <<"\n  content: ", "\"", "\\">> \o digits \o <<"\"", ";\n">>)

(* C4, as claimed: with a family name in props, after set_font_properties   *)
(* the font name is family-style and the full name "family style" (style    *)
(* "Regular" when absent); without one, the derivation sets neither.        *)
C4_DerivedNames ==
  Applied =>
    IF HasFamily(pre)
    THEN /\ DictGet(font.attrs, "fontname")
              = Str(DictGet(pre.props, "family").v \o <<"-">> \o StyleOrRegular(pre))
         /\ DictGet(font.attrs, "fullname")
              = Str(DictGet(pre.props, "family").v \o <<" ">> \o StyleOrRegular(pre))
    ELSE /\ HasKey(font.attrs, "fontname") => HasKey(pre.props, "fontname")
         /\ HasKey(font.attrs, "fullname") => HasKey(pre.props, "fullname")

(* C4, amended: the derived names are the font's names unless props itself  *)
(* declares fontname (or fullname): the declared value is set afterwards    *)
(* and is the one the font keeps.                                           *)
C4_DerivedUnlessDeclared ==
  Applied =>
    /\ HasFamily(pre) =>
         /\ DictGet(font.attrs, "fontname")
              = IF HasKey(pre.props, "fontname") THEN DictGet(pre.props, "fontname")
                ELSE Str(DictGet(pre.props, "family").v \o <<"-">> \o StyleOrRegular(pre))
         /\ DictGet(font.attrs, "fullname")
              = IF HasKey(pre.props, "fullname") THEN DictGet(pre.props, "fullname")
                ELSE Str(DictGet(pre.props, "family").v \o <<" ">> \o StyleOrRegular(pre))
    /\ ~HasFamily(pre) =>
         /\ HasKey(font.attrs, "fontname") => HasKey(pre.props, "fontname")
         /\ HasKey(font.attrs, "fullname") => HasKey(pre.props, "fullname")
         /\ ~HasKey(font.attrs, "familyname")

\* family Swimm and no style: Swimm-Regular and "Swimm Regular"
C4_Witness ==
  /\ Applied
  /\ HasFamily(pre)
  /\ ~HasKey(pre.props, "style")
  /\ DictGet(font.attrs, "fontname") = Str(<<"Swimm", "-", "Regular">>)
  /\ DictGet(font.attrs, "fullname") = Str(<<"Swimm", " ", "Regular">>)

(* C5: the phases of main run in the order load config, enumerate glyphs,   *)
(* assemble font, render fonts, render demo page, render stylesheet; once a *)
(* phase has failed nothing more runs and nothing more is written: no       *)
(* style.css without demo.html, neither without every output font.          *)
C5_FailFast ==
  [][ /\ pc = "failed" => UNCHANGED <<pc, log, written, files>>
      /\ IsPrefix(log', PhaseLines)
      /\ IsPrefix(written', ExpectedWrites(config'))
      /\ InSeq(written', <<"style.css">>) => InSeq(written', <<"demo.html">>)
      /\ InSeq(written', <<"demo.html">>) =>
           /\ Len(written') > Len(config'.output_fonts)
           /\ Len(log') >= 5
      /\ pc' = "done" <=> log' = PhaseLines
      /\ pc' = "done" => written' = ExpectedWrites(config')
    ]_vars

\* the second output font is not rendered: one font written, no demo page,
\* no stylesheet, the run over
C5_Witness ==
  /\ pc = "failed"
  /\ Len(log) = 4
  /\ Len(config.output_fonts) = 2
  /\ written = << <<"fonts", "/", "fontaweswimm.ttf">> >>

(* C6: two runs on the same configuration file, directory and templates     *)
(* give the same glyph assignment and the same demo.html and style.css.     *)
C6_Idempotent ==
  run = 2 =>
    /\ pc \in {"initialize_font", "generate_fonts", "generate_demo_html",
              "generate_style_css", "done"} => glyphs = first.glyphs
    /\ DemoWritten => DemoPage = DictGet(first.files, <<"demo.html">>)
    /\ StyleWritten => StyleSheet = DictGet(first.files, <<"style.css">>)

\* a second complete run over a directory of two icons
C6_Witness ==
  /\ run = 2
  /\ pc = "done"
  /\ Len(glyphs) = 2
  /\ Count(DemoPage, FragmentStart) = 2
  /\ StyleWritten

(* C7: set_font_properties leaves the configuration as it was, so applying  *)
(* it to a second font gives the metadata of the first.                     *)
C7_ConfigReadOnly ==
  Applied =>
    /\ config = pre
    /\ run = 3 => font = first.font

(* C8, as claimed: whatever the number of glyph-list placeholders in the    *)
(* template (one or more), the page holds one fragment per glyph.           *)
C8_SubstitutedOnce ==
  (DemoWritten /\ Count(html_template.content, REGEX_GLYPH_LIST) >= 1) =>
    Count(DemoPage, FragmentStart) = Len(glyphs)

(* C8, amended: every occurrence of the glyph-list placeholder is replaced  *)
(* by the block of fragments: a template with k occurrences gives k         *)
(* fragments per glyph, and no placeholder is left.                         *)
C8_EveryOccurrence ==
  DemoWritten =>
    /\ Count(DemoPage, FragmentStart)
         = Count(html_template.content, REGEX_GLYPH_LIST) * Len(glyphs)
    /\ Count(DemoPage, REGEX_GLYPH_LIST) = 0

\* two placeholders, two glyphs: four fragments
C8_Witness ==
  /\ DemoWritten
  /\ Count(html_template.content, REGEX_GLYPH_LIST) = 2
  /\ Len(glyphs) = 2
  /\ Count(DemoPage, FragmentStart) = 4

\* the loop of get_glyphs, taken step by step, returns what get_glyphs as a
\* whole gives
LoopAsWhole == GlyphsReturned => glyphs = get_glyphs(icon_dir.content)

(* C9: every code point get_glyphs assigns lies in the Private Use Area     *)
(* U+E000..U+F8FF.                                                          *)
C9_PrivateUse ==
  \A i \in 1..Len(glyphs) :
    /\ PrivateUseFirst <= int(glyphs[i][1])
    /\ int(glyphs[i][1]) <= PrivateUseLast

(* C10: every declared property but lang, family, style and encoding is     *)
(* applied once: set on the font when the font has the attribute (a list    *)
(* as a tuple), else registered in the name table under the language (or    *)
(* "English (US)"); the four keys never go this way; the tuples of          *)
(* sfnt_names are registered as they are, after them.                       *)
C10_GenericPath ==
  Applied =>
    LET d == Declared(pre.props)
        derived == IF HasFamily(pre)
                   THEN << <<"setattr", "familyname">>, <<"setattr", "fontname">>,
                           <<"setattr", "fullname">> >>
                   ELSE <<>>
        generic == [i \in 1..Len(d) |->
                      IF d[i][1] \in FontAttributes THEN <<"setattr", d[i][1]>>
                      ELSE <<"appendSFNTName", d[i][1]>>]
        listed == [i \in 1..Len(pre.sfnt_names) |-> <<"appendSFNTName", pre.sfnt_names[i][2]>>]
        named == Flatten([i \in 1..Len(d) |->
                            IF d[i][1] \in FontAttributes THEN <<>>
                            ELSE << <<LangOrEnglish(pre), d[i][1], d[i][2]>> >>])
    IN /\ font.calls = << <<"setattr", "encoding">> >> \o derived \o generic \o listed
       /\ font.sfnt = named \o pre.sfnt_names
       /\ \A i \in 1..Len(d) :
            d[i][1] \in FontAttributes =>
              DictGet(font.attrs, d[i][1])
                = IF d[i][2].t = "list" THEN [t |-> "tuple", v |-> d[i][2].v] ELSE d[i][2]

\* lang French: Designer goes to the name table under French, os2_panose is
\* set as a tuple, the listed names follow
C10_Witness ==
  /\ Applied
  /\ HasKey(pre.props, "lang")
  /\ Len(pre.sfnt_names) = 2
  /\ font.sfnt = << <<Str(<<"French">>), "Designer", Str(<<"Swimm Ltd">>)>> >> \o pre.sfnt_names
  /\ HasKey(font.attrs, "os2_panose")
  /\ DictGet(font.attrs, "os2_panose") = [t |-> "tuple", v |-> <<"2", "0", "5">>]

====
